---- MODULE Spec2Model ----
(***************************************************************************)
(* Model of the oauth2client package: the tokenManager (cached access      *)
(* token, expiry instant, mutex) and the APIClient operations CallAPI and  *)
(* DownloadFile that consume it, run by concurrent callers against a       *)
(* nondeterministic token endpoint and API endpoint.                       *)
(***************************************************************************)
EXTENDS Integers, Sequences, FiniteSets, TLC

\* ---------------------------------------------------------------- bounds
NumProcs == 2      \* concurrent callers sharing one APIClient
MaxTime == 2       \* the clock runs over 0..MaxTime (seconds)
MaxTokReqs == 3    \* requests the token endpoint answers in one behaviour
NumTokens == 2     \* distinct non-empty access_token strings the endpoint issues
MaxTtl == 1        \* expires_in ranges up to SafetyMargin + MaxTtl

\* ------------------------------------------------------ program constants
SafetyMargin == 60          \* tokenResp.ExpiresIn-60
StatusOK == 200             \* http.StatusOK
StatusCreated == 201        \* http.StatusCreated
StatusUnauthorized == 401   \* http.StatusUnauthorized
StatusNotFound == 404       \* stands for every other status
Empty == 0                  \* the empty string ""
Torn == 0 - 1               \* a string read while it is being written unlocked
NoOwner == 0                \* mutex unlocked

Procs == 1..NumProcs
Tokens == Empty..NumTokens
ExpiresInSet == (SafetyMargin - 1)..(SafetyMargin + MaxTtl)
Statuses == {StatusOK, StatusCreated, StatusUnauthorized, StatusNotFound}
Kinds == {"CallAPI", "DownloadFile"}

VARIABLES
  hasTM,        \* c.tokenManager != nil
  accessToken,  \* tm.accessToken
  expiresAt,    \* tm.expiresAt
  mutex,        \* tm.mutex: NoOwner or the caller holding it
  now,          \* time.Now()
  pc,           \* position of each caller
  kind,         \* the operation each caller invoked
  depth,        \* nesting depth of the recursive re-invocation
  token,        \* local variable token of CallAPI / DownloadFile
  pend,         \* tokenResp of a refreshToken that has yet to store the expiry
  ret,          \* what the invocation returned
  apiReqs,      \* requests this invocation sent to the API endpoint
  sinceReq,     \* token requests this invocation sent since its last API request
  tokTotal,     \* requests sent to the token endpoint by anyone
  reqAuth,      \* Authorization header the invocation computed for its last API request
  args,         \* body, additionalHeaders, method and context the caller passed
  sent,         \* the last request this invocation sent to the API endpoint
  lastResp,     \* last response the API endpoint gave this invocation, and what
                \* the file system answered when DownloadFile saved it
  goodTokens,   \* every answer of the token endpoint so far was a usable token
  waitedFor,    \* tokens stored since, and by, the refresh a caller was blocked by
  disk          \* content of the files DownloadFile can write

vars == <<hasTM, accessToken, expiresAt, mutex, now, pc, kind, depth, token,
          pend, ret, apiReqs, sinceReq, tokTotal, reqAuth, args, sent, lastResp,
          goodTokens, waitedFor, disk>>

tmVars == <<accessToken, expiresAt>>

\* ------------------------------------------------------------- data types
NoPend == [tok |-> Empty, ei |-> 0]
NoAuth == "none"
Nil == "nil"
NoRet == [err |-> "pending", status |-> 0, body |-> Nil, msg |-> <<>>]
NoResp == [fault |-> "unsent", status |-> 0, enc |-> "", wire |-> Nil, dispo |-> "", fs |-> ""]

\* Token endpoint answers: 200 with a decodable body, or one of the failures.
TokenResponses ==
  [outcome : {"ok"}, tok : Tokens, ei : ExpiresInSet]
    \cup [outcome : {"transport", "status", "decode"}, tok : {Empty}, ei : {0}]

\* The answers of a token endpoint whose tokens have expires_in <= 60.
ShortLivedResponses == {r \in TokenResponses : r.outcome = "ok" => r.ei <= SafetyMargin}

\* Bytes of a response body: the text itself, its gzip compression, or a gzip
\* stream that breaks off after its header.
RawBody == [fmt |-> "raw", text |-> "B"]
GzBody == [fmt |-> "gz", text |-> "B"]
CutGzBody == [fmt |-> "gzcut", text |-> "B"]
WireBodies == {RawBody, GzBody, CutGzBody}

\* API endpoint answers that differ in nothing but the status, and a
\* transport failure.
StatusResponses ==
  [fault : {"none"}, status : Statuses, enc : {""}, wire : {RawBody}, dispo : {""}]
    \cup [fault : {"transport"}, status : {0}, enc : {""}, wire : {RawBody}, dispo : {""}]

\* API endpoint answers: those, every combination of status, Content-Encoding
\* and body bytes, and a body that breaks off while it is read.
ApiResponses ==
  StatusResponses
    \cup [fault : {"none"}, status : Statuses, enc : {"", "gzip", "deflate"}, wire : WireBodies,
          dispo : {""}]
    \cup [fault : {"read"}, status : {StatusOK}, enc : {""}, wire : {RawBody}, dispo : {""}]

\* Values of the Content-Disposition header of a response: none, one with a
\* filename parameter, one without, and one mime.ParseMediaType rejects.
Dispositions == {"", "attachment; filename=f", "attachment", "attachment; filename"}

\* API endpoint answers to a download: those that differ in the status only,
\* a 200 under every Content-Disposition, a 200 with a compressed body and a
\* 200 whose body breaks off.
DownloadResponses ==
  StatusResponses
    \cup [fault : {"none"}, status : {StatusOK}, enc : {""}, wire : {RawBody}, dispo : Dispositions]
    \cup [fault : {"none"}, status : {StatusOK}, enc : {"gzip"}, wire : {GzBody}, dispo : {""}]
    \cup [fault : {"read"}, status : {StatusOK}, enc : {""}, wire : {RawBody}, dispo : {""}]

\* Values of the parameter body interface{}: nil, a string, a []byte, a
\* url.Values, a value json.Marshal encodes and one it does not (a channel).
NoBody == [shape |-> "nil", val |-> Nil]
Bodies ==
  {NoBody, [shape |-> "string", val |-> "a b"], [shape |-> "bytes", val |-> "a b"],
   [shape |-> "form", val |-> "a b"], [shape |-> "struct", val |-> "a b"],
   [shape |-> "chan", val |-> "a b"]}

\* Keys of additionalHeaders; each key carries a value of its own.
HeaderKeys == {"Authorization", "authorization", "Content-Type", "X-Request-Id"}
CallerValue(k) == <<"caller", k>>
AdditionalHeaders == {[k \in S |-> CallerValue(k)] : S \in SUBSET HeaderKeys}
NoHeaders == [k \in {} |-> CallerValue(k)]

\* Paths are sequences of names.  Values of destPath: a path that is no
\* directory and an existing directory.
OutPath == <<"out">>
DirPath == <<"dir">>
Destinations == {OutPath, DirPath}

\* filepath.Join(destPath, filename)
Join(d, f) == Append(d, f)

\* The files a download can write; the content of a file that does not
\* exist, and of one that holds the bytes w.
FilePaths == {OutPath, Join(DirPath, "f")}
Absent == [fmt |-> "absent", text |-> "", whole |-> FALSE]
FileOf(w) == [fmt |-> w.fmt, text |-> w.text, whole |-> TRUE]

\* The state of the context a context-aware call was given: none given, not
\* done yet, or done with the error ctx.Err() reports.
NoContext == "none"
ContextErrors == {"context deadline exceeded", "context canceled"}

\* What a caller passes besides the operation: body, additionalHeaders, method
\* (and a context).  Every body without additional headers, every set of
\* additional headers with no body and with a string, and a method
\* http.NewRequest rejects.
NoArgs ==
  [body |-> NoBody, hdrs |-> NoHeaders, method |-> "GET", ctx |-> NoContext, dest |-> OutPath]
RequestArgs ==
  [body : Bodies, hdrs : {NoHeaders}, method : {"GET"}, ctx : {NoContext}, dest : {OutPath}]
    \cup [body : {b \in Bodies : b.shape \in {"nil", "string"}}, hdrs : AdditionalHeaders,
          method : {"GET"}, ctx : {NoContext}, dest : {OutPath}]
    \cup {[NoArgs EXCEPT !.method = "G T"]}

NoSent == [payload |-> Nil, ctype |-> "", hdrs |-> NoHeaders]

\* Outcomes of os.Create and io.Copy on the destination file.
SaveOutcomes == {"ok", "create", "copy"}

\* What a response and the file system give a caller: r and the outcome of
\* saving it.
Seen(r, saved) ==
  [fault |-> r.fault, status |-> r.status, enc |-> r.enc, wire |-> r.wire, dispo |-> r.dispo,
   fs |-> saved]

\* What a caller of DownloadFile passes: a destination of either kind.
DownloadArgs == {[NoArgs EXCEPT !.dest = d] : d \in Destinations}

\* ------------------------------------------------------- pure operations
\* The mutex as it would be if Lock never waited.
MutexFree_NeverWaits(m) == TRUE

\* tm.mutex.Lock() goes through when nobody holds the mutex.
MutexFree(m) == m = NoOwner

\* The Unlock of getValidToken as it would be if it were the last statement of
\* the function instead of deferred: the error return leaves without it.
DeferredUnlock_SkippedOnError(m, failed) == IF failed THEN m ELSE NoOwner

\* defer tm.mutex.Unlock(): the mutex when getValidToken returns, with an
\* error or without.
DeferredUnlock(m, failed) == NoOwner

\* A token response a caller can use: an access_token and more than the safety
\* margin to live.
Usable(r) == r.outcome = "ok" /\ r.tok # Empty /\ r.ei > SafetyMargin

\* c.tokenManager != nil
UsesTokenManager(tm) == tm

\* The validity test without its empty-token half.
NeedsRefresh_ExpiryOnly(tok, t, exp) == t > exp

\* tm.accessToken == "" || time.Now().After(tm.expiresAt)
NeedsRefresh(tok, t, exp) == tok = Empty \/ t > exp

\* time.Now().Add(time.Duration(tokenResp.ExpiresIn-60) * time.Second)
ExpiryOf(t, ei) == t + (ei - SafetyMargin)

\* if token != "" { req.Header.Set("Authorization", "Bearer "+token) }
AuthHeader(tok) == IF tok # Empty THEN <<"Bearer", tok>> ELSE NoAuth

\* v.Encode() of a url.Values and json.Marshal(v)
Encode(v) == <<"urlencoded", v>>
Marshal(v) == <<"json", v>>

\* The type switch with its string case left out: a string goes to json.Marshal.
Negotiate_NoStringCase(b) ==
  CASE b.shape = "nil" -> [ok |-> TRUE, payload |-> Nil, ctype |-> ""]
    [] b.shape = "bytes" -> [ok |-> TRUE, payload |-> b.val, ctype |-> "application/octet-stream"]
    [] b.shape = "form" ->
         [ok |-> TRUE, payload |-> Encode(b.val), ctype |-> "application/x-www-form-urlencoded"]
    [] b.shape = "chan" -> [ok |-> FALSE, payload |-> Nil, ctype |-> ""]
    [] OTHER -> [ok |-> TRUE, payload |-> Marshal(b.val), ctype |-> "application/json"]

\* switch v := body.(type) { case nil: ... case string: ... case []byte: ...
\* case url.Values: ... default: json.Marshal(v) ... }
Negotiate(b) ==
  CASE b.shape = "nil" -> [ok |-> TRUE, payload |-> Nil, ctype |-> ""]
    [] b.shape = "string" -> [ok |-> TRUE, payload |-> b.val, ctype |-> "text/plain"]
    [] b.shape = "bytes" -> [ok |-> TRUE, payload |-> b.val, ctype |-> "application/octet-stream"]
    [] b.shape = "form" ->
         [ok |-> TRUE, payload |-> Encode(b.val), ctype |-> "application/x-www-form-urlencoded"]
    [] b.shape = "chan" -> [ok |-> FALSE, payload |-> Nil, ctype |-> ""]
    [] OTHER -> [ok |-> TRUE, payload |-> Marshal(b.val), ctype |-> "application/json"]

\* http.NewRequest accepts a method that is a token.
ValidMethod(m) == m = "GET"

\* textproto.CanonicalMIMEHeaderKey, which Header.Set applies to its key.
Canonical(k) == IF k = "authorization" THEN "Authorization" ELSE k

\* req.Header.Set(key, value)
Set(h, k, v) == [n \in DOMAIN h \cup {Canonical(k)} |-> IF n = Canonical(k) THEN v ELSE h[n]]

\* The orders in which range visits the keys of a map.
Orders(S) == {o \in [1..Cardinality(S) -> S] : \A i, j \in DOMAIN o : i # j => o[i] # o[j]}

\* for key, value := range additionalHeaders { req.Header.Set(key, value) },
\* the keys visited in the order o.
RECURSIVE Overlay(_, _, _)
Overlay(h, add, o) ==
  IF o = <<>> THEN h ELSE Overlay(Set(h, Head(o), add[Head(o)]), add, Tail(o))

\* The headers of CallAPI / DownloadFile as they would be if the additional
\* headers were set first and the computed ones after them.
RequestHeaders_ComputedLast(tok, ctype, add, o) ==
  LET h0 == Overlay(NoHeaders, add, o)
      h1 == IF tok # Empty THEN Set(h0, "Authorization", AuthHeader(tok)) ELSE h0
  IN  IF ctype # "" THEN Set(h1, "Content-Type", ctype) ELSE h1

\* The headers of the request: Authorization, Content-Type, then the
\* additional headers.
RequestHeaders(tok, ctype, add, o) ==
  LET h1 == IF tok # Empty THEN Set(NoHeaders, "Authorization", AuthHeader(tok)) ELSE NoHeaders
      h2 == IF ctype # "" THEN Set(h1, "Content-Type", ctype) ELSE h1
  IN  Overlay(h2, add, o)

\* The error of c.httpClient.Do(req) as it would be if it were not tested.
SendFailed_Ignored(r) == FALSE

\* resp, err := c.httpClient.Do(req); if err != nil
SendFailed(r) == r.fault \in {"transport"} \cup ContextErrors

\* The retry test without its tokenManager half.
ShouldRetry_AnyClient(status, tm) == status = StatusUnauthorized

\* resp.StatusCode == http.StatusUnauthorized && c.tokenManager != nil
ShouldRetry(status, tm) == status = StatusUnauthorized /\ tm

\* The status test of CallAPI with 201 Created left out.
CallFailed_Only200(status) == status # StatusOK

\* resp.StatusCode != http.StatusOK && resp.StatusCode != http.StatusCreated
CallFailed(status) == status # StatusOK /\ status # StatusCreated

\* The status test of DownloadFile left out: every response is saved.
DownloadFailed_NoStatusTest(status) == FALSE

\* The status test of DownloadFile as it would be if it were the one of CallAPI.
DownloadFailed_Accepts201(status) == status # StatusOK /\ status # StatusCreated

\* resp.StatusCode != http.StatusOK
DownloadFailed(status) == status # StatusOK

\* gzip.NewReader, which fails on bytes that do not start a gzip stream, and
\* io.ReadAll, which fails on a stream that breaks off.
Gunzip(w) ==
  CASE w.fmt = "gz" -> [ok |-> TRUE, bytes |-> [fmt |-> "raw", text |-> w.text], err |-> ""]
    [] w.fmt = "gzcut" -> [ok |-> FALSE, bytes |-> Nil, err |-> "failed to read response body"]
    [] OTHER -> [ok |-> FALSE, bytes |-> Nil, err |-> "failed to create gzip reader"]

\* The reading of the body as it would be without the gzip case.
ReadBody_NoGzipCase(enc, w) == [ok |-> TRUE, bytes |-> w, err |-> ""]

\* switch resp.Header.Get("Content-Encoding") { case "gzip": ... default: ... }
\* and io.ReadAll(reader)
ReadBody(enc, w) ==
  IF enc = "gzip" THEN Gunzip(w) ELSE [ok |-> TRUE, bytes |-> w, err |-> ""]

\* fi, err := os.Stat(destPath); err == nil && fi.IsDir()
IsDir(path) == path = DirPath

\* mime.ParseMediaType(disposition) and params["filename"]: the filename
\* parameter, Nil when the header is empty, does not parse or has none.
FileName(d) == IF d = "attachment; filename=f" THEN "f" ELSE Nil

\* The destination as it would be if the Content-Disposition were not looked at.
Target_Verbatim(dest, d) == dest

\* The path DownloadFile creates: inside destPath under the filename of the
\* Content-Disposition when destPath is a directory and there is a filename,
\* destPath otherwise.
Target(dest, d) == IF IsDir(dest) /\ FileName(d) # Nil THEN Join(dest, FileName(d)) ELSE dest

\* What os.Create and io.Copy come to for path and response r when the file
\* system answers saved: a directory cannot be created as a file, and a body
\* that breaks off fails the copy.
SaveOutcome(path, r, saved) ==
  IF IsDir(path) \/ saved = "create" THEN "create"
  ELSE IF r.fault = "read" THEN "copy"
  ELSE saved

\* What io.Copy leaves in the file when it fails.
PartOf(w) == [fmt |-> w.fmt, text |-> w.text, whole |-> FALSE]

\* The files after os.Create(path) and io.Copy(out, resp.Body) with outcome out.
Written(d, path, w, out) ==
  CASE out = "create" -> d
    [] out = "copy" -> [d EXCEPT ![path] = PartOf(w)]
    [] OTHER -> [d EXCEPT ![path] = FileOf(w)]

\* refreshToken as it would be if it stored tokenResp.AccessToken before it
\* tested the answer of the token endpoint.
StoredToken_BeforeChecks(r, old) == r.tok

\* tm.accessToken when refreshToken returns: tokenResp.AccessToken once the
\* send, the status and the decoding have gone through, the value it had
\* otherwise (each failure returns before the two stores).
StoredToken(r, old) == IF r.outcome = "ok" THEN r.tok ELSE old

\* A caller other than p is inside refreshToken without the mutex and has yet
\* to write tm.accessToken.
UnlockedWriter(p) == \E q \in Procs \ {p} : pc[q] = "rfRecv" /\ mutex # q

\* p has called tm.mutex.Lock() and waits for q, which holds the mutex.
BlockedBy(p, q) == p # q /\ pc[p] = "gvtLock" /\ mutex = q

\* Values a read of tm.accessToken by p can observe.
ReadToken(p) == {accessToken} \cup (IF UnlockedWriter(p) THEN {Torn} ELSE {})

\* ------------------------------------------------------------------ Init
Init ==
  /\ hasTM \in BOOLEAN
  /\ accessToken = Empty
  /\ expiresAt = 0
  /\ mutex = NoOwner
  /\ now = 0
  /\ pc = [p \in Procs |-> "idle"]
  /\ kind = [p \in Procs |-> "CallAPI"]
  /\ depth = [p \in Procs |-> 0]
  /\ token = [p \in Procs |-> Empty]
  /\ pend = [p \in Procs |-> NoPend]
  /\ ret = [p \in Procs |-> NoRet]
  /\ apiReqs = [p \in Procs |-> 0]
  /\ sinceReq = [p \in Procs |-> 0]
  /\ tokTotal = 0
  /\ reqAuth = [p \in Procs |-> NoAuth]
  /\ args = [p \in Procs |-> NoArgs]
  /\ sent = [p \in Procs |-> NoSent]
  /\ lastResp = [p \in Procs |-> NoResp]
  /\ goodTokens = TRUE
  /\ waitedFor = [p \in Procs |-> {}]
  /\ disk = [f \in FilePaths |-> Absent]

\* --------------------------------------------------------------- actions
\* The invocation returns r to its caller.
Return(p, r) ==
  /\ ret' = [ret EXCEPT ![p] = r]
  /\ pc' = [pc EXCEPT ![p] = "done"]

Failure(e) == [err |-> e, status |-> 0, body |-> Nil, msg |-> <<>>]

\* Body negotiation, http.NewRequest, the headers and c.httpClient.Do(req):
\* the request built from a leaves for the API endpoint carrying tok, unless
\* the body does not marshal or the request cannot be created.
SendRequest(p, tok, a) ==
  LET n == Negotiate(a.body) IN
  IF ~n.ok
    THEN /\ Return(p, Failure("failed to marshal request body"))
         /\ UNCHANGED <<reqAuth, apiReqs, sinceReq, sent>>
  ELSE IF ~ValidMethod(a.method)
    THEN /\ Return(p, Failure("failed to create request"))
         /\ UNCHANGED <<reqAuth, apiReqs, sinceReq, sent>>
  ELSE /\ \E o \in Orders(DOMAIN a.hdrs) :
            sent' = [sent EXCEPT ![p] = [payload |-> n.payload, ctype |-> n.ctype,
                                         hdrs |-> RequestHeaders(tok, n.ctype, a.hdrs, o)]]
       /\ reqAuth' = [reqAuth EXCEPT ![p] = AuthHeader(tok)]
       /\ apiReqs' = [apiReqs EXCEPT ![p] = @ + 1]
       /\ sinceReq' = [sinceReq EXCEPT ![p] = 0]
       /\ pc' = [pc EXCEPT ![p] = "recv"]
       /\ UNCHANGED ret

\* refreshToken up to client.Do(req): the request leaves for the token endpoint.
SendTokenRequest(p) ==
  /\ tokTotal < MaxTokReqs
  /\ sinceReq' = [sinceReq EXCEPT ![p] = @ + 1]
  /\ tokTotal' = tokTotal + 1
  /\ pc' = [pc EXCEPT ![p] = "rfRecv"]

\* A caller invokes CallAPI or DownloadFile.  With a tokenManager it goes for
\* the token first; without one it sends its request with no token.  Inside
\* the package a caller can also invoke getValidToken of the tokenManager.
Invoke(p, k, a) ==
  /\ pc[p] = "idle"
  /\ k = "getValidToken" => hasTM
  /\ kind' = [kind EXCEPT ![p] = k]
  /\ args' = [args EXCEPT ![p] = a]
  /\ IF UsesTokenManager(hasTM)
       THEN /\ pc' = [pc EXCEPT ![p] = "gvtLock"]
            /\ UNCHANGED <<reqAuth, apiReqs, sinceReq, sent, ret>>
       ELSE SendRequest(p, Empty, a)
  /\ UNCHANGED <<hasTM, tmVars, mutex, now, depth, token, pend,
                 tokTotal, lastResp, goodTokens, waitedFor, disk>>

\* tm.mutex.Lock() and the validity test; when the test asks for it, the
\* refresh starts.
getValidToken_Enter(p) ==
  /\ pc[p] = "gvtLock"
  /\ MutexFree(mutex)
  /\ mutex' = p
  /\ \E tok \in ReadToken(p) :
       IF NeedsRefresh(tok, now, expiresAt)
         THEN SendTokenRequest(p)
         ELSE /\ pc' = [pc EXCEPT ![p] = "gvtRet"]
              /\ UNCHANGED <<sinceReq, tokTotal>>
  /\ UNCHANGED <<hasTM, tmVars, now, kind, depth, token, pend, ret, apiReqs,
                 reqAuth, args, sent, lastResp, goodTokens, waitedFor, disk>>

\* return tm.accessToken, nil, the deferred Unlock, and the request of the
\* CallAPI or DownloadFile that asked for the token.
getValidToken_Return(p) ==
  /\ pc[p] = "gvtRet"
  /\ mutex' = DeferredUnlock(mutex, FALSE)
  /\ \E tok \in ReadToken(p) :
       /\ token' = [token EXCEPT ![p] = tok]
       /\ IF kind[p] = "getValidToken"
            THEN /\ Return(p, [NoRet EXCEPT !.err = "none"])
                 /\ UNCHANGED <<reqAuth, apiReqs, sinceReq, sent>>
            ELSE SendRequest(p, tok, args[p])
  /\ waitedFor' = [waitedFor EXCEPT ![p] = {}]
  /\ UNCHANGED <<hasTM, tmVars, now, kind, depth, pend, tokTotal, args, lastResp,
                 goodTokens, disk>>

\* The head of CallAPI / DownloadFile as it would be if the error of
\* getValidToken were dropped: the request goes out with no token.
TokenError_Dropped(p) ==
  /\ SendRequest(p, Empty, args[p])
  /\ UNCHANGED token

\* if err != nil { return nil, 0, fmt.Errorf("failed to get valid token: %w", err) }
TokenError(p) ==
  /\ Return(p, Failure("failed to get valid token"))
  /\ UNCHANGED <<apiReqs, sinceReq, reqAuth, sent, token>>

\* if err := tm.refreshToken(); err != nil { return "", err }
getValidToken_Error(p) ==
  /\ Return(p, Failure("refreshToken failed"))
  /\ UNCHANGED <<apiReqs, sinceReq, reqAuth, sent, token>>

\* The 401 handler as it would be if it reported the 401 when the forced
\* refresh fails.
RefreshError_Reports401(p) ==
  /\ Return(p, [err |-> "API call failed", status |-> StatusUnauthorized, body |-> Nil,
                msg |-> <<StatusUnauthorized, Nil>>])
  /\ UNCHANGED <<apiReqs, sinceReq, reqAuth, sent, token>>

\* if err := c.tokenManager.refreshToken(); err != nil { return nil, 0, ... }
RefreshError(p) ==
  /\ Return(p, Failure("failed to refresh token"))
  /\ UNCHANGED <<apiReqs, sinceReq, reqAuth, sent, token>>

\* refreshToken from the answer of client.Do(req) to the decoded tokenResp
\* and tm.accessToken = tokenResp.AccessToken; the token endpoint answers
\* with one of R.  A failure is returned through getValidToken (which
\* unlocks) or through the 401 handler, whichever called.
refreshToken_Answer(p, R) ==
  /\ pc[p] = "rfRecv"
  /\ \E r \in R :
       /\ goodTokens' = (goodTokens /\ Usable(r))
       /\ IF r.outcome = "ok"
            THEN /\ accessToken' = r.tok
                 /\ waitedFor' = [q \in Procs |-> IF BlockedBy(q, p) THEN {r.tok}
                                                  ELSE IF waitedFor[q] # {}
                                                    THEN waitedFor[q] \cup {r.tok}
                                                  ELSE {}]
                 /\ pend' = [pend EXCEPT ![p] = [tok |-> r.tok, ei |-> r.ei]]
                 /\ pc' = [pc EXCEPT ![p] = "rfStoreExp"]
                 /\ UNCHANGED <<mutex, ret, apiReqs, sinceReq, reqAuth, sent, token>>
            ELSE /\ IF mutex = p
                      THEN /\ mutex' = DeferredUnlock(mutex, TRUE)
                           /\ IF kind[p] = "getValidToken"
                                THEN getValidToken_Error(p)
                                ELSE TokenError(p)
                      ELSE /\ UNCHANGED mutex
                           /\ RefreshError(p)
                 /\ waitedFor' = [waitedFor EXCEPT ![p] = {}]
                 /\ accessToken' = StoredToken(r, accessToken)
                 /\ UNCHANGED pend
  /\ UNCHANGED <<hasTM, expiresAt, now, kind, depth, tokTotal, args, lastResp, disk>>

\* The same against a token endpoint that answers in every way.
refreshToken_Recv(p) == refreshToken_Answer(p, TokenResponses)

\* tm.expiresAt = ...; return nil.  Back in getValidToken the caller goes on to
\* its return statement; back in the 401 handler it re-invokes the operation.
refreshToken_StoreExpiry(p) ==
  /\ pc[p] = "rfStoreExp"
  /\ expiresAt' = ExpiryOf(now, pend[p].ei)
  /\ pend' = [pend EXCEPT ![p] = NoPend]
  /\ IF mutex = p
       THEN /\ pc' = [pc EXCEPT ![p] = "gvtRet"]
            /\ UNCHANGED depth
       ELSE /\ pc' = [pc EXCEPT ![p] = "gvtLock"]
            /\ depth' = [depth EXCEPT ![p] = @ + 1]
  /\ UNCHANGED <<hasTM, accessToken, mutex, now, kind, token, ret, apiReqs,
                 sinceReq, tokTotal, reqAuth, args, sent, lastResp, goodTokens, waitedFor, disk>>

\* What CallAPI returns for response r once no retry applies.
CallAPI_Result(r) ==
  LET b == ReadBody(r.enc, r.wire) IN
  IF CallFailed(r.status)
    THEN [err |-> "API call failed", status |-> r.status, body |-> Nil,
          msg |-> <<r.status, b.bytes>>]
    ELSE [err |-> "none", status |-> r.status, body |-> b.bytes, msg |-> <<>>]

\* CallAPI from the answer of c.httpClient.Do(req) to its return or its
\* forced refresh; the endpoint answers with one of R.
CallAPI_Recv(p, R) ==
  /\ pc[p] = "recv"
  /\ kind[p] = "CallAPI"
  /\ \E r \in R :
       /\ lastResp' = [lastResp EXCEPT ![p] = Seen(r, "")]
       /\ IF SendFailed(r)
            THEN /\ Return(p, [Failure("failed to send request") EXCEPT !.msg = <<r.fault>>])
                 /\ UNCHANGED <<sinceReq, tokTotal>>
          ELSE IF ~ReadBody(r.enc, r.wire).ok
            THEN /\ Return(p, Failure(ReadBody(r.enc, r.wire).err))
                 /\ UNCHANGED <<sinceReq, tokTotal>>
          ELSE IF r.fault = "read"
            THEN /\ Return(p, Failure("failed to read response body"))
                 /\ UNCHANGED <<sinceReq, tokTotal>>
          ELSE IF ShouldRetry(r.status, hasTM)
            THEN /\ SendTokenRequest(p)
                 /\ UNCHANGED ret
          ELSE /\ Return(p, CallAPI_Result(r))
               /\ UNCHANGED <<sinceReq, tokTotal>>
  /\ UNCHANGED <<hasTM, tmVars, mutex, now, kind, depth, token, pend, apiReqs, reqAuth,
                 args, sent, goodTokens, waitedFor, disk>>

\* What DownloadFile returns for response r once no retry applies; out is
\* what os.Create and io.Copy came to.
DownloadFile_Result(r, out) ==
  IF DownloadFailed(r.status)
    THEN [err |-> "API call failed", status |-> 0, body |-> Nil, msg |-> <<r.status, r.wire>>]
  ELSE IF out = "create" THEN Failure("failed to create destination file")
  ELSE IF out = "copy" THEN Failure("failed to save file")
  ELSE [NoRet EXCEPT !.err = "none"]

\* DownloadFile from the answer of c.httpClient.Do(req) to its return or its
\* forced refresh; the endpoint answers with one of R and the file system
\* with one of S.
DownloadFile_Recv(p, R, S) ==
  /\ pc[p] = "recv"
  /\ kind[p] = "DownloadFile"
  /\ \E r \in R, saved \in S :
       /\ lastResp' = [lastResp EXCEPT ![p] = Seen(r, saved)]
       /\ IF SendFailed(r)
            THEN /\ Return(p, [Failure("failed to send request") EXCEPT !.msg = <<r.fault>>])
                 /\ UNCHANGED <<sinceReq, tokTotal, disk>>
          ELSE IF ShouldRetry(r.status, hasTM)
            THEN /\ SendTokenRequest(p)
                 /\ UNCHANGED <<ret, disk>>
          ELSE LET path == Target(args[p].dest, r.dispo)
                   out == SaveOutcome(path, r, saved)
               IN  /\ Return(p, DownloadFile_Result(r, out))
                   /\ disk' = IF DownloadFailed(r.status) THEN disk
                              ELSE Written(disk, path, r.wire, out)
                   /\ UNCHANGED <<sinceReq, tokTotal>>
  /\ UNCHANGED <<hasTM, tmVars, mutex, now, kind, depth, token, pend, apiReqs, reqAuth,
                 args, sent, goodTokens, waitedFor>>

\* A caller invokes CallAPIWithContext or DownloadFileWithContext with a
\* context that is not done.
InvokeWithContext(p, k) == Invoke(p, k, [NoArgs EXCEPT !.ctx = "live"])

\* The deadline of p's context expires, or the context is cancelled, while
\* p's API request is in flight.
ContextDone(p, e) ==
  /\ pc[p] = "recv"
  /\ args[p].ctx = "live"
  /\ args' = [args EXCEPT ![p].ctx = e]
  /\ UNCHANGED <<hasTM, tmVars, mutex, now, pc, kind, depth, token, pend, ret, apiReqs,
                 sinceReq, tokTotal, reqAuth, sent, lastResp, goodTokens, waitedFor, disk>>

\* What the transport gives a request sent under context state c: the error
\* of the context once it is done, an answer of the endpoint otherwise.
ContextResponses(c) ==
  IF c \in ContextErrors
    THEN {[fault |-> c, status |-> 0, enc |-> "", wire |-> RawBody, dispo |-> ""]}
    ELSE StatusResponses

\* The context-aware operations as they would be if the context did not reach
\* the transport.
CallAPIWithContext_Unthreaded(p) == CallAPI_Recv(p, StatusResponses)

\* CallAPIWithContext from the answer of the transport on: CallAPI with the
\* context threaded through to the send.
CallAPIWithContext_Recv(p) == CallAPI_Recv(p, ContextResponses(args[p].ctx))

\* DownloadFileWithContext likewise.
DownloadFileWithContext_Recv(p) ==
  DownloadFile_Recv(p, ContextResponses(args[p].ctx), {"ok"})

\* Time passes.
Tick ==
  /\ now < MaxTime
  /\ now' = now + 1
  /\ UNCHANGED <<hasTM, tmVars, mutex, pc, kind, depth, token, pend, ret, apiReqs,
                 sinceReq, tokTotal, reqAuth, args, sent, lastResp, goodTokens, waitedFor, disk>>

\* The caller that got its result invokes the client once more.
Again(p) ==
  /\ pc[p] = "done"
  /\ pc' = [pc EXCEPT ![p] = "idle"]
  /\ depth' = [depth EXCEPT ![p] = 0]
  /\ token' = [token EXCEPT ![p] = Empty]
  /\ ret' = [ret EXCEPT ![p] = NoRet]
  /\ apiReqs' = [apiReqs EXCEPT ![p] = 0]
  /\ sinceReq' = [sinceReq EXCEPT ![p] = 0]
  /\ reqAuth' = [reqAuth EXCEPT ![p] = NoAuth]
  /\ args' = [args EXCEPT ![p] = NoArgs]
  /\ sent' = [sent EXCEPT ![p] = NoSent]
  /\ lastResp' = [lastResp EXCEPT ![p] = NoResp]
  /\ UNCHANGED <<hasTM, tmVars, mutex, now, kind, pend, tokTotal, goodTokens, waitedFor, disk>>

\* Concurrent callers, one invocation each, against endpoints whose answers
\* differ in the status only.
Next ==
  \/ \E p \in Procs, k \in Kinds : Invoke(p, k, NoArgs)
  \/ \E p \in Procs : getValidToken_Enter(p)
  \/ \E p \in Procs : getValidToken_Return(p)
  \/ \E p \in Procs : refreshToken_Recv(p)
  \/ \E p \in Procs : refreshToken_StoreExpiry(p)
  \/ \E p \in Procs : CallAPI_Recv(p, StatusResponses)
  \/ \E p \in Procs : DownloadFile_Recv(p, StatusResponses, {"ok"})
  \/ Tick

Spec == Init /\ [][Next]_vars

\* One caller, any number of invocations one after the other, against an API
\* endpoint that answers CallAPI in every way and DownloadFile with every
\* status.
Caller == CHOOSE p \in Procs : \A q \in Procs : p <= q

NextCall ==
  \/ \E k \in Kinds : Invoke(Caller, k, NoArgs)
  \/ getValidToken_Enter(Caller)
  \/ getValidToken_Return(Caller)
  \/ refreshToken_Recv(Caller)
  \/ refreshToken_StoreExpiry(Caller)
  \/ CallAPI_Recv(Caller, ApiResponses)
  \/ DownloadFile_Recv(Caller, StatusResponses, {"ok"})
  \/ Again(Caller)
  \/ Tick

SpecCall == Init /\ [][NextCall]_vars

\* Concurrent callers of getValidToken, one invocation each.
NextToken ==
  \/ \E p \in Procs : Invoke(p, "getValidToken", NoArgs)
  \/ \E p \in Procs : getValidToken_Enter(p)
  \/ \E p \in Procs : getValidToken_Return(p)
  \/ \E p \in Procs : refreshToken_Recv(p)
  \/ \E p \in Procs : refreshToken_StoreExpiry(p)
  \/ Tick

SpecToken == Init /\ [][NextToken]_vars

\* One caller, one invocation with any body, additional headers and method,
\* against endpoints whose answers differ in the status only.
NextRequest ==
  \/ \E k \in Kinds, a \in RequestArgs : Invoke(Caller, k, a)
  \/ getValidToken_Enter(Caller)
  \/ getValidToken_Return(Caller)
  \/ refreshToken_Recv(Caller)
  \/ refreshToken_StoreExpiry(Caller)
  \/ CallAPI_Recv(Caller, StatusResponses)
  \/ DownloadFile_Recv(Caller, StatusResponses, {"ok"})
  \/ Tick

SpecRequest == Init /\ [][NextRequest]_vars

\* One caller, one context-aware invocation whose context can expire or be
\* cancelled while the API request is in flight.
NextContext ==
  \/ \E k \in Kinds : InvokeWithContext(Caller, k)
  \/ getValidToken_Enter(Caller)
  \/ getValidToken_Return(Caller)
  \/ refreshToken_Recv(Caller)
  \/ refreshToken_StoreExpiry(Caller)
  \/ \E e \in ContextErrors : ContextDone(Caller, e)
  \/ CallAPIWithContext_Recv(Caller)
  \/ DownloadFileWithContext_Recv(Caller)
  \/ Tick

SpecContext == Init /\ [][NextContext]_vars

\* One caller, any number of DownloadFile invocations one after the other to
\* either kind of destination, against a file system that answers in every way.
NextDownload ==
  \/ \E a \in DownloadArgs : Invoke(Caller, "DownloadFile", a)
  \/ getValidToken_Enter(Caller)
  \/ getValidToken_Return(Caller)
  \/ refreshToken_Recv(Caller)
  \/ refreshToken_StoreExpiry(Caller)
  \/ DownloadFile_Recv(Caller, DownloadResponses, SaveOutcomes)
  \/ Again(Caller)
  \/ Tick

SpecDownload == Init /\ [][NextDownload]_vars

\* A caller whose getValidToken has returned calls it again; the number of
\* calls is bounded through the requests the token endpoint answers.
InvokeAgain(p) ==
  /\ tokTotal + NumProcs <= MaxTokReqs
  /\ Again(p)

\* Concurrent callers of getValidToken, each calling it again and again,
\* within one reading of the clock: whether a call refreshes follows from the
\* expires_in the token endpoint reported (above 60 the token is in date,
\* below 60 it is not).
NextLive ==
  \/ \E p \in Procs : Invoke(p, "getValidToken", NoArgs)
  \/ \E p \in Procs : getValidToken_Enter(p)
  \/ \E p \in Procs : getValidToken_Return(p)
  \/ \E p \in Procs : refreshToken_Recv(p)
  \/ \E p \in Procs : refreshToken_StoreExpiry(p)
  \/ \E p \in Procs : InvokeAgain(p)

\* Every round trip to the token endpoint completes and a goroutine that can
\* run does; a goroutine that waits in tm.mutex.Lock() gets the mutex if it
\* is released again and again (sync.Mutex hands the lock to a waiter that
\* has waited long: its starvation mode).
Fairness ==
  \A p \in Procs :
    /\ SF_vars(getValidToken_Enter(p))
    /\ WF_vars(getValidToken_Return(p))
    /\ WF_vars(refreshToken_Recv(p))
    /\ WF_vars(refreshToken_StoreExpiry(p))

SpecLive == Init /\ [][NextLive]_vars /\ Fairness

\* One caller that calls getValidToken again and again against a token
\* endpoint whose tokens have expires_in <= 60.
NextShortLived ==
  \/ Invoke(Caller, "getValidToken", NoArgs)
  \/ getValidToken_Enter(Caller)
  \/ getValidToken_Return(Caller)
  \/ refreshToken_Answer(Caller, ShortLivedResponses)
  \/ refreshToken_StoreExpiry(Caller)
  \/ Again(Caller)
  \/ Tick

SpecShortLived == Init /\ [][NextShortLived]_vars

\* ------------------------------------------------------------ properties
InRefresh(p) == pc[p] \in {"rfRecv", "rfStoreExp"}

\* The getValidToken execution p is in has refreshed (the forced refresh of a
\* 401 handler is not part of it).
OwnRefresh(p) == sinceReq[p] > (IF depth[p] > 0 THEN 1 ELSE 0)

\* The body of response r reached the caller whole.
Readable(r) == r.fault = "none" /\ ReadBody(r.enc, r.wire).ok

Succeeded(status) == status \in {StatusOK, StatusCreated}

\* p's invocation is over and the API endpoint answered its last request.
Answered(p) == pc[p] = "done" /\ lastResp[p].fault \in {"none", "read"}

FailedStatus(p, status) == ret[p].err = "API call failed" /\ ret[p].msg[1] = status

\* C1: with a tokenManager one invocation sends at most two requests to the
\* API endpoint, and a 401 answer to the retried request ends the invocation
\* with the failed-status error that carries 401.
C1_RetryAtMostOnce ==
  hasTM => \A p \in Procs :
    /\ apiReqs[p] <= 2
    /\ (apiReqs[p] = 2 /\ pc[p] # "recv" /\ lastResp[p].status = StatusUnauthorized)
         => (pc[p] = "done" /\ FailedStatus(p, StatusUnauthorized))

\* C2: a CallAPI whose first attempt was answered 401 sends exactly one token
\* request between the first and the retried API request, sends exactly one
\* retried API request, and that request carries a token a refresh stored.
C2_OneRefreshOneRetry ==
  \A p \in Procs : (kind[p] = "CallAPI" /\ depth[p] >= 1) =>
    /\ (depth[p] = 1 /\ pc[p] = "gvtRet") => sinceReq[p] = 1
    /\ apiReqs[p] <= 2
    /\ apiReqs[p] = 2 => token[p] \in Tokens

\* The callers act within one reading of the clock and the token endpoint
\* has answered with usable tokens only.
C3_Scenario == hasTM /\ now = 0 /\ goodTokens

\* p's getValidToken has returned a token.
GotToken(p) == pc[p] = "done" /\ ret[p].err = "none"

\* C3: callers that invoke getValidToken at the same time on a tokenManager
\* with no cached token, with a token endpoint that answers successfully with
\* expires_in > 60, cause exactly one token request in total and all get the
\* same token.
C3_SingleFlight ==
  C3_Scenario =>
    /\ tokTotal <= 1
    /\ \A p \in Procs : pc[p] = "done" => (tokTotal = 1 /\ GotToken(p) /\ token[p] # Empty)
    /\ \A p, q \in Procs : (GotToken(p) /\ GotToken(q)) => token[p] = token[q]

C3_Witness ==
  /\ C3_Scenario
  /\ tokTotal = 1
  /\ \A p \in Procs : GotToken(p) /\ token[p] = accessToken

\* C4: no two executions of refreshToken on the one tokenManager overlap.
C4_NoOverlappingRefresh == Cardinality({p \in Procs : InRefresh(p)}) <= 1

\* C5: whoever reads or writes the cached token and expiry holds the mutex,
\* and the cache does not change between the validity test and the return of
\* a getValidToken that did not refresh.
C5_CacheUnderMutex ==
  /\ [](\A p \in Procs : InRefresh(p) => mutex = p)
  /\ [][\A p \in Procs : (pc[p] = "gvtRet" /\ ~OwnRefresh(p)) => tmVars' = tmVars]_vars

\* C6: getValidToken refreshes if and only if the cached token is empty or the
\* time is at or after the stored expiry instant.
C6_RefreshIffNotBeforeExpiry ==
  [][\A p \in Procs : (pc[p] = "gvtLock" /\ pc'[p] # "gvtLock") =>
        ((pc'[p] = "rfRecv") <=> (accessToken = Empty \/ now >= expiresAt))]_vars

\* C7: when a successful refreshToken returns, the cached token is the
\* access_token of its token response and the cached expiry is the time of
\* the refresh plus expires_in minus 60 seconds.
C7_RefreshStoresResponse ==
  [][\A p \in Procs : (pc[p] = "rfStoreExp" /\ pc'[p] # "rfStoreExp") =>
        /\ accessToken' = pend[p].tok
        /\ expiresAt' = now + pend[p].ei - SafetyMargin]_vars

\* C8: when getValidToken fails at the head of CallAPI or DownloadFile, the
\* invocation returns the token error and that invocation sends no request to
\* the API endpoint (the requests counted are the one of each enclosing
\* invocation whose 401 led here).
C8_TokenFailureSendsNothing ==
  [][\A p \in Procs :
        (pc[p] = "rfRecv" /\ mutex = p /\ pc'[p] \notin {"rfRecv", "rfStoreExp"}) =>
          /\ pc'[p] = "done"
          /\ ret'[p].err = "failed to get valid token"
          /\ apiReqs'[p] = depth[p]]_vars

C8_Witness ==
  \E p \in Procs : /\ pc[p] = "done"
                   /\ ret[p].err = "failed to get valid token"
                   /\ apiReqs[p] = 0
                   /\ lastResp[p] = NoResp

\* C9 as stated: a client without a tokenManager never contacts the token
\* endpoint, never sets an Authorization header of its own and never retries:
\* a 401 leads to one API request and the failed-status error carrying 401.
C9_NoManager_AsStated ==
  ~hasTM =>
    /\ tokTotal = 0
    /\ \A p \in Procs :
         /\ reqAuth[p] = NoAuth
         /\ apiReqs[p] <= 1
         /\ lastResp[p].status = StatusUnauthorized
              => (pc[p] = "done" /\ FailedStatus(p, StatusUnauthorized))

\* C9 as amended: the same, the failed-status error being what CallAPI returns
\* for a 401 whose body it could read; DownloadFile returns it for every 401.
C9_NoManager ==
  ~hasTM =>
    /\ tokTotal = 0
    /\ \A p \in Procs :
         /\ reqAuth[p] = NoAuth
         /\ apiReqs[p] <= 1
         /\ lastResp[p].status = StatusUnauthorized => pc[p] = "done"
         /\ (lastResp[p].status = StatusUnauthorized
               /\ (kind[p] = "DownloadFile" \/ Readable(lastResp[p])))
              => FailedStatus(p, StatusUnauthorized)

C9_Witness ==
  /\ ~hasTM
  /\ \E p \in Procs : /\ lastResp[p].status = StatusUnauthorized
                      /\ kind[p] = "CallAPI"
                      /\ apiReqs[p] = 1
                      /\ FailedStatus(p, StatusUnauthorized)

\* What CallAPI hands back on success for response r, and on a failed status.
IsSuccessOf(p, r) ==
  /\ ret[p].err = "none"
  /\ ret[p].status = r.status
  /\ ret[p].body = ReadBody(r.enc, r.wire).bytes

IsFailureOf(p, r) ==
  /\ FailedStatus(p, r.status)
  /\ ret[p].msg[2] = ReadBody(r.enc, r.wire).bytes
  /\ ret[p].status = r.status
  /\ ret[p].body = Nil

ComputedNames == {"Authorization", "Content-Type"}
SuppliedNames(add) == {Canonical(k) : k \in DOMAIN add}

\* The request p sent has under n the value the code computed for n: the
\* Bearer token under Authorization unless the token is empty, the negotiated
\* type under Content-Type unless there is none.
KeepsComputed(p, n) ==
  LET h == sent[p].hdrs
      v == IF n = "Authorization"
             THEN (IF token[p] # Empty THEN <<"Bearer", token[p]>> ELSE Nil)
             ELSE (IF sent[p].ctype # "" THEN sent[p].ctype ELSE Nil)
  IN  IF v = Nil THEN n \notin DOMAIN h ELSE n \in DOMAIN h /\ h[n] = v

\* C12 as stated: in every request CallAPI or DownloadFile sends, each header
\* name the caller supplies carries the caller's value, Content-Type and
\* Authorization included, and each name the caller does not supply keeps the
\* computed value.
C12_CallerHeadersWin_AsStated ==
  \A p \in Procs : apiReqs[p] >= 1 =>
    LET h == sent[p].hdrs
        add == args[p].hdrs
    IN  /\ \A k \in DOMAIN add : Canonical(k) \in DOMAIN h /\ h[Canonical(k)] = add[k]
        /\ \A n \in ComputedNames \ SuppliedNames(add) : KeepsComputed(p, n)
        /\ DOMAIN h \subseteq ComputedNames \cup SuppliedNames(add)

\* C12 as amended: each header name the caller supplies carries a value the
\* caller supplied under that name, names that differ in letter case only
\* being one name: the caller's value when the caller gave the name once,
\* one of the caller's values when the caller gave it in several spellings.
\* Each name the caller does not supply keeps the computed value.
C12_CallerHeadersWin ==
  \A p \in Procs : apiReqs[p] >= 1 =>
    LET h == sent[p].hdrs
        add == args[p].hdrs
    IN  /\ \A k \in DOMAIN add :
             /\ Canonical(k) \in DOMAIN h
             /\ h[Canonical(k)] \in {add[j] : j \in {i \in DOMAIN add : Canonical(i) = Canonical(k)}}
        /\ \A n \in ComputedNames \ SuppliedNames(add) : KeepsComputed(p, n)
        /\ DOMAIN h \subseteq ComputedNames \cup SuppliedNames(add)

C12_Witness ==
  \E p \in Procs :
    /\ apiReqs[p] >= 1
    /\ token[p] # Empty
    /\ args[p].body.shape = "string"
    /\ DOMAIN args[p].hdrs = {"Authorization", "Content-Type"}
    /\ sent[p].hdrs["Authorization"] = CallerValue("Authorization")
    /\ sent[p].hdrs["Content-Type"] = CallerValue("Content-Type")

\* C13: the body and the Content-Type of a request follow from the shape of
\* the body the caller passed: none from nil; the text and text/plain from a
\* string; the bytes and application/octet-stream from a []byte; the
\* url-encoding and application/x-www-form-urlencoded from a url.Values; the
\* JSON encoding and application/json from every other value; and with a value
\* json.Marshal rejects the invocation fails and sends no API request.
C13_BodyNegotiation ==
  \A p \in Procs :
    LET b == args[p].body
        r == sent[p]
    IN  /\ apiReqs[p] >= 1 =>
             /\ b.shape = "nil" => (r.payload = Nil /\ r.ctype = "")
             /\ b.shape = "string" => (r.payload = b.val /\ r.ctype = "text/plain")
             /\ b.shape = "bytes" => (r.payload = b.val /\ r.ctype = "application/octet-stream")
             /\ b.shape = "form" => /\ r.payload = <<"urlencoded", b.val>>
                                    /\ r.ctype = "application/x-www-form-urlencoded"
             /\ b.shape = "struct" => /\ r.payload = <<"json", b.val>>
                                      /\ r.ctype = "application/json"
             /\ b.shape # "chan"
             /\ "Content-Type" \notin SuppliedNames(args[p].hdrs) =>
                  IF b.shape = "nil" THEN "Content-Type" \notin DOMAIN r.hdrs
                  ELSE r.hdrs["Content-Type"] = r.ctype
        /\ (b.shape = "chan" /\ pc[p] = "done") =>
             /\ ret[p].err \in {"failed to marshal request body", "failed to get valid token"}
             /\ hasTM \/ ret[p].err = "failed to marshal request body"

C13_Witness ==
  \E p \in Procs : /\ args[p].body.shape = "chan"
                   /\ hasTM
                   /\ tokTotal = 1
                   /\ token[p] # Empty
                   /\ pc[p] = "done"
                   /\ apiReqs[p] = 0
                   /\ ret[p].err = "failed to marshal request body"

\* C14: when the send of the API request fails at transport level, CallAPI
\* and DownloadFile return the send error in that step: no token request and
\* no further API request is sent, and the cached token and expiry stay as
\* they are.
C14_TransportFailureReturns ==
  [][\A p \in Procs :
        (pc[p] = "recv" /\ pc'[p] # "recv" /\ lastResp'[p].fault = "transport") =>
          /\ pc'[p] = "done"
          /\ ret'[p].err = "failed to send request"
          /\ tokTotal' = tokTotal
          /\ apiReqs' = apiReqs
          /\ tmVars' = tmVars]_vars

C14_Witness ==
  \E p \in Procs : /\ hasTM
                   /\ accessToken # Empty
                   /\ pc[p] = "done"
                   /\ lastResp[p].fault = "transport"
                   /\ ret[p].err = "failed to send request"
                   /\ depth[p] = 1

\* C15: a context-aware call whose deadline expires, or whose context is
\* cancelled, while its API request is in flight returns in its next step
\* the send error that wraps the error of the context (deadline exceeded and
\* cancelled being told apart by it); no further API request and no token
\* request is sent and the cached token and expiry stay as they are.
C15_ContextAbortsSend ==
  [][\A p \in Procs :
        (pc[p] = "recv" /\ args[p].ctx \in ContextErrors /\ pc'[p] # "recv") =>
          /\ pc'[p] = "done"
          /\ ret'[p].err = "failed to send request"
          /\ ret'[p].msg = <<args[p].ctx>>
          /\ apiReqs' = apiReqs
          /\ tokTotal' = tokTotal
          /\ tmVars' = tmVars]_vars

C15_Witness ==
  \E p \in Procs : /\ hasTM
                   /\ kind[p] = "CallAPI"
                   /\ args[p].ctx = "context deadline exceeded"
                   /\ pc[p] = "done"
                   /\ ret[p].msg = <<"context deadline exceeded">>
                   /\ apiReqs[p] = 1

\* C16: a caller of getValidToken that was blocked while another caller's
\* refresh was in progress does not refresh on its own when it finds the
\* token of a refresh that got expires_in > 60 still in date, and the token it
\* returns is one stored by the refresh it was blocked by or by a later
\* refresh.
C16_BlockedCallerSeesRefresh ==
  /\ [][\A p \in Procs :
          (pc[p] = "gvtLock" /\ pc'[p] # "gvtLock" /\ waitedFor[p] # {}
             /\ goodTokens /\ now <= expiresAt) => pc'[p] = "gvtRet"]_vars
  /\ [][\A p \in Procs :
          (pc[p] = "gvtRet" /\ pc'[p] # "gvtRet" /\ waitedFor[p] # {})
             => token'[p] \in waitedFor[p]]_vars

\* C17: CallAPI takes the body of a response with Content-Encoding gzip
\* decompressed when the bytes are a gzip stream and returns a decompression
\* error when they are not; with any other or no Content-Encoding it takes
\* the bytes as they are.  The body so taken is what CallAPI returns with
\* status 200 or 201 and what the failed-status error quotes otherwise.
C17_GzipDecoding ==
  \A p \in Procs : (kind[p] = "CallAPI" /\ pc[p] = "done" /\ lastResp[p].fault = "none") =>
    LET r == lastResp[p]
        final == ~(r.status = StatusUnauthorized /\ hasTM)
        taken == IF r.enc = "gzip" THEN [fmt |-> "raw", text |-> r.wire.text] ELSE r.wire
    IN  /\ (r.enc = "gzip" /\ r.wire.fmt # "gz") =>
             /\ ret[p].err \in {"failed to create gzip reader", "failed to read response body"}
             /\ ret[p].body = Nil
        /\ (r.enc # "gzip" \/ r.wire.fmt = "gz") =>
             /\ Succeeded(r.status) => (ret[p].err = "none" /\ ret[p].body = taken)
             /\ (~Succeeded(r.status) /\ final) =>
                  (FailedStatus(p, r.status) /\ ret[p].msg[2] = taken)

C17_Witness ==
  \E p \in Procs : /\ kind[p] = "CallAPI"
                   /\ pc[p] = "done"
                   /\ lastResp[p].fault = "none"
                   /\ lastResp[p].status = StatusOK
                   /\ lastResp[p].enc = "gzip"
                   /\ lastResp[p].wire = GzBody
                   /\ ret[p].err = "none"
                   /\ ret[p].body = RawBody

\* p's CallAPI without body and additional headers runs on a client with a
\* tokenManager, the token endpoint has answered with usable tokens only and
\* the API endpoint has not rejected p's request.
C18_Scenario(p) ==
  /\ hasTM
  /\ goodTokens
  /\ kind[p] = "CallAPI"
  /\ args[p] = NoArgs
  /\ depth[p] = 0
  /\ lastResp[p].status # StatusUnauthorized

\* C18: on a fresh client whose token endpoint returns a token and whose API
\* endpoint accepts it, one CallAPI sends one token request, then one API
\* request whose Authorization header is Bearer and that token, and returns
\* the body of the response with status 200 and no error.
C18_FreshClientCall ==
  \A p \in Procs : C18_Scenario(p) =>
    /\ apiReqs[p] >= 1 =>
         /\ tokTotal = 1
         /\ apiReqs[p] = 1
         /\ accessToken # Empty
         /\ token[p] = accessToken
         /\ DOMAIN sent[p].hdrs = {"Authorization"}
         /\ sent[p].hdrs["Authorization"] = <<"Bearer", accessToken>>
    /\ (pc[p] = "done" /\ lastResp[p].status = StatusOK) =>
         ret[p] = [err |-> "none", status |-> StatusOK, body |-> lastResp[p].wire, msg |-> <<>>]

C18_Witness ==
  \E p \in Procs : /\ C18_Scenario(p)
                   /\ pc[p] = "done"
                   /\ lastResp[p].status = StatusOK
                   /\ tokTotal = 1
                   /\ apiReqs[p] = 1
                   /\ sent[p].hdrs["Authorization"] = <<"Bearer", accessToken>>
                   /\ ret[p].err = "none"
                   /\ ret[p].body = RawBody

\* C19: on a 200 response DownloadFile writes the bytes of the response body
\* as they came to destination/filename when the destination is an existing
\* directory and the Content-Disposition has a filename parameter, and to the
\* destination itself in every other case; it writes no other file; and when
\* the file cannot be created (the file system refuses, or the path is a
\* directory) it returns the file-creation error and writes nothing.
C19_DownloadDestination ==
  [][\A p \in Procs :
        (kind[p] = "DownloadFile" /\ pc[p] = "recv" /\ pc'[p] = "done"
           /\ lastResp'[p].fault \in {"none", "read"} /\ lastResp'[p].status = StatusOK) =>
          LET r == lastResp'[p]
              named == r.dispo = "attachment; filename=f"
              path == IF args[p].dest = DirPath /\ named THEN <<"dir", "f">> ELSE args[p].dest
              creatable == path \in FilePaths /\ r.fs # "create"
          IN  /\ \A f \in FilePaths \ {path} : disk'[f] = disk[f]
              /\ (creatable /\ r.fs = "ok" /\ r.fault = "none") =>
                   (ret'[p].err = "none" /\ disk'[path] = FileOf(r.wire))
              /\ ret'[p].err = "none" => (creatable /\ disk'[path] = FileOf(r.wire))
              /\ ~creatable =>
                   (ret'[p].err = "failed to create destination file" /\ disk' = disk)]_vars

C19_Witness ==
  \E p \in Procs : /\ kind[p] = "DownloadFile"
                   /\ pc[p] = "done"
                   /\ args[p].dest = DirPath
                   /\ lastResp[p].status = StatusOK
                   /\ lastResp[p].dispo = "attachment; filename=f"
                   /\ ret[p].err = "none"
                   /\ disk[<<"dir", "f">>] = FileOf(RawBody)
                   /\ disk[OutPath] = Absent

\* C20: an invocation on a client with a tokenManager re-invokes itself at
\* most once, so that it returns after a bounded number of round trips
\* whatever the API endpoint answers: once the re-invocation has its token,
\* the answer to its request ends the invocation.
C20_BoundedReinvocation ==
  hasTM => \A p \in Procs :
    /\ depth[p] <= 1
    /\ (depth[p] = 1 /\ lastResp[p].fault = "none" /\ apiReqs[p] = 2)
         => pc[p] \in {"recv", "done"}

\* A getValidToken of p leaves tm.mutex.Lock() behind in this step.
Enters(p) == pc[p] = "gvtLock" /\ pc'[p] # "gvtLock"

\* C21: with a token endpoint that reports expires_in <= 60, every
\* getValidToken sends a request to the token endpoint before it returns, at
\* whatever time it is called, the instant of the refresh before it included
\* (the first call finds no token and refreshes in any case).
C21_ShortLivedAlwaysRefreshes ==
  [][\A p \in Procs : Enters(p) => (pc'[p] = "rfRecv" /\ tokTotal' = tokTotal + 1)]_vars

\* p's refreshToken returns an error in this step.
RefreshFails(p) == pc[p] = "rfRecv" /\ pc'[p] \notin {"rfRecv", "rfStoreExp"}

\* C22: a refreshToken that fails returns an error (which getValidToken and
\* the 401 handler hand on) and the cached token and expiry are, from the
\* sending of its token request to its return, what they were before; a
\* cached token that is not expired is then what a later getValidToken
\* returns, without a token request.
C22_FailedRefreshKeepsCache ==
  /\ [][\A p \in Procs : (pc[p] = "rfRecv" /\ pc'[p] # "rfStoreExp") => tmVars' = tmVars]_vars
  /\ [][\A p \in Procs : (pc[p] # "rfRecv" /\ pc'[p] = "rfRecv") => tmVars' = tmVars]_vars
  /\ [][\A p \in Procs : RefreshFails(p) =>
          /\ pc'[p] = "done"
          /\ ret'[p].err \in {"failed to get valid token", "failed to refresh token"}]_vars
  /\ [][\A p \in Procs : (Enters(p) /\ accessToken # Empty /\ now <= expiresAt) =>
          (pc'[p] = "gvtRet" /\ tokTotal' = tokTotal)]_vars
  /\ [][\A p \in Procs : (pc[p] = "gvtRet" /\ pc'[p] # "gvtRet") =>
          (token'[p] = accessToken /\ tmVars' = tmVars)]_vars

\* A forced refresh has failed while the token refreshed before it was in
\* date, and that token and its expiry are still what is cached.
C22_Witness ==
  \E p \in Procs : /\ pc[p] = "done"
                   /\ ret[p].err = "failed to refresh token"
                   /\ lastResp[p].status = StatusUnauthorized
                   /\ tokTotal = 2
                   /\ accessToken = token[p]
                   /\ accessToken # Empty
                   /\ now <= expiresAt

\* C23: when the forced refresh that follows a 401 fails, CallAPI and
\* DownloadFile return the refresh error in that step, with status 0 and no
\* body, not the failed-status error of the 401, and send no further API
\* request.
C23_FailedForcedRefresh ==
  [][\A p \in Procs : (RefreshFails(p) /\ mutex # p) =>
        /\ lastResp[p].status = StatusUnauthorized
        /\ pc'[p] = "done"
        /\ ret'[p] = [err |-> "failed to refresh token", status |-> 0, body |-> Nil, msg |-> <<>>]
        /\ apiReqs' = apiReqs
        /\ sent' = sent]_vars

C23_Witness ==
  \E p \in Procs : /\ kind[p] = "DownloadFile"
                   /\ pc[p] = "done"
                   /\ lastResp[p].status = StatusUnauthorized
                   /\ ret[p].err = "failed to refresh token"
                   /\ ret[p].status = 0
                   /\ depth[p] = 0
                   /\ apiReqs[p] = 1

\* p is inside getValidToken, between its Lock and its return.
InGetValidToken(p) == pc[p] \in {"rfRecv", "rfStoreExp", "gvtRet"}

\* C24: the mutex is held by nobody but a caller inside getValidToken (no
\* caller that has returned, with a token or with the error of the nested
\* refresh, holds it), and every caller that waits for the mutex gets it and
\* returns, as long as the token endpoint answers every request.
C24_MutexReleased ==
  /\ [](\A p \in Procs : mutex = p => InGetValidToken(p))
  /\ \A p \in Procs : (pc[p] = "gvtLock") ~> (pc[p] = "done")

\* A getValidToken whose refresh failed has returned and another caller holds
\* the mutex after it.
C24_Witness ==
  \E p, q \in Procs : /\ pc[p] = "done"
                      /\ ret[p].err = "refreshToken failed"
                      /\ mutex = q
                      /\ tokTotal = 2

\* C25: on a client with a tokenManager every request sent to the API
\* endpoint by a caller that supplied no Authorization header follows a token
\* request and carries Authorization: Bearer t, t being a non-empty token
\* string of the token endpoint; none goes out without the header, whatever
\* the token endpoint answered with status 200.
C25_AlwaysAuthenticated ==
  hasTM => \A p \in Procs :
    (apiReqs[p] >= 1 /\ "Authorization" \notin SuppliedNames(args[p].hdrs)) =>
      /\ tokTotal >= 1
      /\ "Authorization" \in DOMAIN sent[p].hdrs
      /\ \E t \in Tokens \ {Empty} : sent[p].hdrs["Authorization"] = <<"Bearer", t>>

\* p's DownloadFile gets its answer in this step and returns.
DownloadEnds(p) == kind[p] = "DownloadFile" /\ pc[p] = "recv" /\ pc'[p] = "done"

\* C26: the files change in no step but the one in which a DownloadFile
\* receives a response with status 200: an invocation that ends with a token
\* error, a send error, a failed forced refresh or another status leaves
\* every file as it was, and so do the steps of a retry after a 401.
C26_FileUntouchedUnless200 ==
  /\ [][disk' # disk =>
          \E p \in Procs : /\ DownloadEnds(p)
                           /\ lastResp'[p].fault \in {"none", "read"}
                           /\ lastResp'[p].status = StatusOK]_vars
  /\ [][\A p \in Procs :
          (kind[p] = "DownloadFile" /\ pc[p] # "done" /\ pc'[p] = "done"
             /\ ret'[p].err \in {"failed to get valid token", "failed to send request",
                                 "failed to refresh token", "API call failed"})
            => disk' = disk]_vars
  /\ [][\A p \in Procs : depth'[p] > depth[p] => disk' = disk]_vars

\* A file written by an earlier download is there unchanged after a download
\* to the same destination was answered 404.
C26_Witness ==
  \E p \in Procs : /\ kind[p] = "DownloadFile"
                   /\ pc[p] = "done"
                   /\ args[p].dest = OutPath
                   /\ FailedStatus(p, StatusNotFound)
                   /\ disk[OutPath] = FileOf(RawBody)

====
